---- MODULE Spec2Model ----
(***************************************************************************)
(* Model of src/src/server/wiresharkServer.ts: the NetworkTrafficAggregator *)
(* fold, the capture subprocess handlers, the TestTrafficGenerator and the  *)
(* socket.io connection handlers.                                           *)
(*                                                                          *)
(* JavaScript strings that the code builds or parses (host ids, ip.len,     *)
(* frame.time_epoch, stream keys) are sequences of one-character strings.   *)
(* A Map is a sequence of [key, value] entries in insertion order.          *)
(***************************************************************************)
EXTENDS Integers, Sequences, FiniteSets, TLC

VARIABLES
    aggregator,   \* SpecAgg: one NetworkTrafficAggregator (hosts, streams, hostIdCounter)
    snapshot,     \* SpecAgg: the value the last addPacket returned
    folded,       \* SpecAgg: history, the packets folded so far, in order
    sockets,      \* Spec: per viewer connection: "new", "connected" or "disconnected"
    capture,      \* Spec: per connection, the closure variable capture (0 is null)
    procs,        \* Spec: every subprocess startCapture spawned, with its closure state
    generator,    \* Spec: the module-level testTrafficGenerator
    lastEmit,     \* Spec: the last message the server sent, and the sockets it went to
    testUsers,    \* Spec: history, the connections whose requested source is "test"
    genFolded,    \* Spec: history, the packets the generator folded and for whom
    clock,        \* Spec: the wall clock, in seconds
    timers,       \* Spec: the handles of the interval timers that are live
    stdout,       \* SpecDec: the text tshark writes to its stdout, as pieces
    pos,          \* SpecDec: how many pieces of it the pipe has delivered
    fed           \* SpecDec: history, the chunks delivered so far, in order

aggVars == <<aggregator, snapshot, folded>>

srvVars ==
    <<sockets, capture, procs, generator, timers, lastEmit, testUsers, genFolded, clock>>

decVars == <<stdout, pos, fed>>

vars == <<aggregator, snapshot, folded,
          sockets, capture, procs, generator, timers, lastEmit, testUsers, genFolded,
          clock, stdout, pos, fed>>

-----------------------------------------------------------------------------
(* Bounds and input sets *)

MaxRecords == 2

MaxProcs == 2

MaxEvents == 3

MaxUnits == 2

BufferCeiling == 1000000

IPS == {"10.0.0.1", "10.0.0.2", "10.0.0.3"}

LENS == {<<"0">>, <<"4", "0">>}

-----------------------------------------------------------------------------
(* String conversions *)

Digits == <<"0", "1", "2", "3", "4", "5", "6", "7", "8", "9">>

DigitValue(c) == (CHOOSE d \in 1..10 : Digits[d] = c) - 1

RECURSIVE toString(_)
toString(n) ==
    IF n < 10 THEN <<Digits[n + 1]>>
    ELSE toString(n \div 10) \o <<Digits[(n % 10) + 1]>>

RECURSIVE parseInt(_)
parseInt(s) ==
    IF Len(s) = 1 THEN DigitValue(s[1])
    ELSE parseInt(SubSeq(s, 1, Len(s) - 1)) * 10 + DigitValue(s[Len(s)])

parseFloatMs(s) == parseInt(s) * 1000

-----------------------------------------------------------------------------
(* Map *)

MapIndex(m, k) ==
    IF \E i \in 1..Len(m) : m[i].key = k
    THEN CHOOSE i \in 1..Len(m) : m[i].key = k
    ELSE 0

MapHas(m, k) == MapIndex(m, k) # 0

MapGet(m, k) == m[MapIndex(m, k)].value

MapSet(m, k, v) ==
    IF MapHas(m, k)
    THEN [m EXCEPT ![MapIndex(m, k)] = [key |-> k, value |-> v]]
    ELSE Append(m, [key |-> k, value |-> v])

MapValues(m) == [i \in 1..Len(m) |-> m[i].value]

-----------------------------------------------------------------------------
(* NetworkTrafficAggregator *)

NewAggregator == [hosts |-> <<>>, streams |-> <<>>, hostIdCounter |-> 0]

\* the udp layer is looked at first
getProtocol_udpFirst(packet) ==
    IF packet.udp THEN "UDP"
    ELSE IF packet.tcp THEN "TCP"
    ELSE "OTHER"

getProtocol(packet) ==
    IF packet.tcp THEN "TCP"
    ELSE IF packet.udp THEN "UDP"
    ELSE "OTHER"

\* a lookup that never matches
findHost_never(hosts, ip) == 0

\* Array.from(hosts.values()).find(h => h.ip === ip): the first match, 0 when none
findHost(hosts, ip) ==
    IF \E i \in 1..Len(hosts) : hosts[i].value.ip = ip
    THEN CHOOSE i \in 1..Len(hosts) :
            /\ hosts[i].value.ip = ip
            /\ \A j \in 1..(i - 1) : hosts[j].value.ip # ip
    ELSE 0

\* hostIdCounter++ in place of ++hostIdCounter
getOrCreateHost_postIncrement(agg, ip) ==
    IF findHost(agg.hosts, ip) # 0
    THEN [agg |-> agg, id |-> agg.hosts[findHost(agg.hosts, ip)].key]
    ELSE LET host == [id |-> toString(agg.hostIdCounter), ip |-> ip,
                      packets |-> 0, bytesTransferred |-> 0]
         IN [agg |-> [agg EXCEPT !.hostIdCounter = agg.hostIdCounter + 1,
                                 !.hosts = MapSet(agg.hosts, host.id, host)],
             id |-> host.id]

\* returns the aggregator after the call and the key of the host object returned
getOrCreateHost(agg, ip) ==
    IF findHost(agg.hosts, ip) # 0
    THEN [agg |-> agg, id |-> agg.hosts[findHost(agg.hosts, ip)].key]
    ELSE LET counter == agg.hostIdCounter + 1
             host == [id |-> toString(counter), ip |-> ip,
                      packets |-> 0, bytesTransferred |-> 0]
         IN [agg |-> [agg EXCEPT !.hostIdCounter = counter,
                                 !.hosts = MapSet(agg.hosts, host.id, host)],
             id |-> host.id]

\* host.packets++; host.bytesTransferred += bytes, on the host object held under id
\* the byte counter is left as it is
touchHost_packetsOnly(hosts, id, bytes) ==
    LET h == MapGet(hosts, id)
    IN MapSet(hosts, id, [h EXCEPT !.packets = h.packets + 1])

touchHost(hosts, id, bytes) ==
    LET h == MapGet(hosts, id)
    IN MapSet(hosts, id, [h EXCEPT !.packets = h.packets + 1,
                                   !.bytesTransferred = h.bytesTransferred + bytes])

\* a key that ignores the direction
streamKey_undirected(srcId, dstId, protocol) ==
    IF parseInt(srcId) <= parseInt(dstId)
    THEN srcId \o <<"-">> \o dstId \o <<"-">> \o <<protocol>>
    ELSE dstId \o <<"-">> \o srcId \o <<"-">> \o <<protocol>>

streamKey(srcId, dstId, protocol) ==
    srcId \o <<"-">> \o dstId \o <<"-">> \o <<protocol>>

\* the stream is created anew on every packet
updateStream_alwaysNew(streams, srcId, dstId, protocol, bytes, timestamp) ==
    LET key == streamKey(srcId, dstId, protocol)
        stream == [source |-> srcId, target |-> dstId, protocol |-> protocol,
                   packets |-> 0, bytes |-> 0, timestamp |-> timestamp]
    IN MapSet(streams, key, [stream EXCEPT !.packets = stream.packets + 1,
                                           !.bytes = stream.bytes + bytes,
                                           !.timestamp = timestamp])

updateStream(streams, srcId, dstId, protocol, bytes, timestamp) ==
    LET key == streamKey(srcId, dstId, protocol)
        stream == IF MapHas(streams, key) THEN MapGet(streams, key)
                  ELSE [source |-> srcId, target |-> dstId, protocol |-> protocol,
                        packets |-> 0, bytes |-> 0, timestamp |-> timestamp]
    IN MapSet(streams, key, [stream EXCEPT !.packets = stream.packets + 1,
                                           !.bytes = stream.bytes + bytes,
                                           !.timestamp = timestamp])

getVisualizationData(agg) ==
    [hosts |-> MapValues(agg.hosts), streams |-> MapValues(agg.streams)]

\* the destination host is skipped when it is the source host
addPacket_touchOnce(agg, packet) ==
    LET protocol == getProtocol(packet)
        bytes == parseInt(packet.len)
        timestamp == parseFloatMs(packet.time)
        s == getOrCreateHost(agg, packet.src)
        d == getOrCreateHost(s.agg, packet.dst)
        hosts1 == touchHost(d.agg.hosts, s.id, bytes)
        hosts2 == IF d.id = s.id THEN hosts1 ELSE touchHost(hosts1, d.id, bytes)
    IN [d.agg EXCEPT !.hosts = hosts2,
                     !.streams = updateStream(d.agg.streams, s.id, d.id,
                                              protocol, bytes, timestamp)]

\* the aggregator after addPacket(packet)
addPacket(agg, packet) ==
    LET protocol == getProtocol(packet)
        bytes == parseInt(packet.len)
        timestamp == parseFloatMs(packet.time)
        s == getOrCreateHost(agg, packet.src)
        d == getOrCreateHost(s.agg, packet.dst)
        hosts1 == touchHost(d.agg.hosts, s.id, bytes)
        hosts2 == touchHost(hosts1, d.id, bytes)
    IN [d.agg EXCEPT !.hosts = hosts2,
                     !.streams = updateStream(d.agg.streams, s.id, d.id,
                                              protocol, bytes, timestamp)]

-----------------------------------------------------------------------------
(* SpecAgg: one fresh aggregator folding a bounded sequence of packets *)

\* a decoded tshark packet; the capture clock advances by one second per packet
PacketsAt(t) ==
    [structured : {TRUE}, src : IPS, dst : IPS, len : LENS,
     tcp : BOOLEAN, udp : BOOLEAN, time : {toString(t)}]

AggInit ==
    /\ aggregator = NewAggregator
    /\ snapshot = getVisualizationData(NewAggregator)
    /\ folded = <<>>

Fold ==
    /\ Len(folded) < MaxRecords
    /\ \E packet \in PacketsAt(Len(folded) + 1) :
        /\ aggregator' = addPacket(aggregator, packet)
        /\ snapshot' = getVisualizationData(aggregator')
        /\ folded' = Append(folded, packet)
    /\ UNCHANGED <<srvVars, decVars>>

-----------------------------------------------------------------------------
(* The server: connections, capture subprocesses, the test traffic generator *)

CONNS == {"v1", "v2"}

\* a capture target on which spawn throws (an argument string holding a NUL)
BadInterface == "eth0\\0"

\* the interface each viewer asks for
InterfaceOf(c) == IF c = "v1" THEN "eth0" ELSE "eth1"

\* the JSON value {}: no _source, so no layers, no ip and no frame
NoPacket == [structured |-> FALSE, layers |-> FALSE, ip |-> FALSE, frame |-> FALSE]

\* a JSON value with _source.layers but without ip
NoIp == [structured |-> FALSE, layers |-> TRUE, ip |-> FALSE, frame |-> TRUE]

\* a JSON value with _source.layers.ip but without frame
NoFrame ==
    [structured |-> FALSE, layers |-> TRUE, ip |-> TRUE, frame |-> FALSE,
     src |-> "10.0.0.9", dst |-> "10.0.0.1", len |-> <<"4", "0">>,
     tcp |-> TRUE, udp |-> FALSE]

None == [event |-> "none", to |-> {}]

\* what tshark sees on an interface; the two interfaces see disjoint addresses
CapturePackets(iface, t) ==
    IF iface = "eth0"
    THEN {[structured |-> TRUE, src |-> "10.0.0.1", dst |-> "10.0.0.2",
           len |-> <<"4", "0">>, tcp |-> TRUE, udp |-> FALSE, time |-> toString(t)]}
    ELSE {[structured |-> TRUE, src |-> "10.0.0.3", dst |-> "10.0.0.3",
           len |-> <<"2", "8">>, tcp |-> FALSE, udp |-> TRUE, time |-> toString(t)]}

\* the text of one packet, as pieces: an opening piece, the body, a closing piece
Stringify(packet) ==
    <<[kind |-> "{", n |-> 1], [kind |-> "body", n |-> 100, packet |-> packet],
      [kind |-> "}", n |-> 1]>>

\* the chunks the pipe may deliver: a whole packet, its start, its end
Chunks(iface, t) ==
    UNION {{Stringify(p), SubSeq(Stringify(p), 1, 2), SubSeq(Stringify(p), 3, 3)} :
             p \in CapturePackets(iface, t)}

RECURSIVE length(_)
length(buffer) ==
    IF buffer = <<>> THEN 0 ELSE buffer[1].n + length(Tail(buffer))

\* JSON.parse(buffer) returns iff the buffer holds exactly one complete value
JSONparses(buffer) ==
    /\ Len(buffer) = 3
    /\ buffer[1].kind = "{"
    /\ buffer[2].kind = "body"
    /\ buffer[3].kind = "}"

JSONparse(buffer) == buffer[2].packet

\* addPacket throws a TypeError at its first field accesses
addPacketThrows(packet) == ~packet.structured

\* addPacket reading frame.time_epoch after it has looked the hosts up
tryAddPacket_lateTimestamp(agg, packet) ==
    IF packet.structured THEN [threw |-> FALSE, agg |-> addPacket(agg, packet)]
    ELSE IF ~packet.layers THEN [threw |-> TRUE, agg |-> agg]
    ELSE IF ~packet.ip THEN [threw |-> TRUE, agg |-> agg]
    ELSE [threw |-> TRUE,
          agg |-> getOrCreateHost(getOrCreateHost(agg, packet.src).agg,
                                  packet.dst).agg]

\* addPacket called on any parsed value: whether it threw, and the aggregator it
\* leaves; the accesses that can throw are layers, ip["ip.src"] and frame[...]
tryAddPacket(agg, packet) ==
    IF packet.structured THEN [threw |-> FALSE, agg |-> addPacket(agg, packet)]
    ELSE IF ~packet.layers THEN [threw |-> TRUE, agg |-> agg]
    ELSE IF ~packet.ip THEN [threw |-> TRUE, agg |-> agg]
    ELSE [threw |-> TRUE, agg |-> agg]

\* the sockets io.emit sends to: every connected one
ioSockets == {c \in CONNS : sockets[c] = "connected"}

\* history: which traffic source a message is about
CaptureSource(i) == [kind |-> "capture", proc |-> i]

TestSource == [kind |-> "test", proc |-> 0]

SocketSource == [kind |-> "socket", proc |-> 0]

\* a networkUpdate message; owners, first, packet, source and repeat are
\* history: the connections whose source sent it, whether it is the first one of
\* that source since the source was started, the packet folded for it, the
\* source, and (for errors) whether the message before it was the same one
NetworkUpdate(to, data, owners, first, packet, source) ==
    [event |-> "networkUpdate", to |-> to, data |-> data,
     owners |-> owners, first |-> first, packet |-> packet,
     source |-> source, repeat |-> FALSE]

ErrorMessage(to, text, owners, source) ==
    [event |-> "error", to |-> to, data |-> text, owners |-> owners,
     first |-> FALSE, packet |-> NoPacket, source |-> source,
     repeat |-> (/\ lastEmit.event = "error"
                 /\ lastEmit.data = text
                 /\ lastEmit.source = source)]

\* interval is the handle setInterval returned, 0 is null
NewGenerator ==
    [running |-> FALSE, interval |-> 0, aggregator |-> NewAggregator,
     emitted |-> 0]

GEN_IPS == <<"192.168.1.1", "192.168.1.2">>

GEN_PROTOCOLS == <<"TCP", "UDP", "HTTP", "HTTPS", "DNS">>

GEN_BYTES == {50}

\* the values Math.random() gives the source index here
GEN_SRC_INDEXES == {1}

generateRandomPacket(srcIpIndex, dstIpIndex, protocolIndex, bytes, now) ==
    LET protocol == GEN_PROTOCOLS[protocolIndex]
    IN [structured |-> TRUE,
        src |-> GEN_IPS[srcIpIndex],
        dst |-> GEN_IPS[dstIpIndex],
        len |-> toString(bytes),
        tcp |-> protocol \in {"TCP", "HTTP", "HTTPS"},
        udp |-> protocol \in {"UDP", "DNS"},
        time |-> toString(now)]

\* setInterval: a handle that no live timer has
setInterval(live) == CHOOSE h \in 1..(Cardinality(live) + 1) : h \notin live

\* clearInterval: the timer with that handle is gone
clearInterval(live, h) == live \ {h}

\* start without its first line
start_noGuard(gen, live) ==
    [gen |-> [gen EXCEPT !.running = TRUE, !.interval = setInterval(live),
                         !.emitted = 0],
     timers |-> live \cup {setInterval(live)}]

\* TestTrafficGenerator.start: the generator and the live timers afterwards
start(gen, live) ==
    IF gen.running THEN [gen |-> gen, timers |-> live]
    ELSE [gen |-> [gen EXCEPT !.running = TRUE, !.interval = setInterval(live),
                              !.emitted = 0],
          timers |-> live \cup {setInterval(live)}]

\* TestTrafficGenerator.stop
stop(gen, live) ==
    IF ~gen.running THEN [gen |-> gen, timers |-> live]
    ELSE IF gen.interval # 0
         THEN [gen |-> [gen EXCEPT !.running = FALSE, !.interval = 0],
               timers |-> clearInterval(live, gen.interval)]
         ELSE [gen |-> [gen EXCEPT !.running = FALSE], timers |-> live]

\* startCapture: a fresh aggregator and buffer for the spawned subprocess;
\* decoded is history, the packets this subprocess's handler folded, in order
startCapture(c, networkInterface) ==
    [owner |-> c, iface |-> networkInterface, status |-> "running",
     aggregator |-> NewAggregator, buffer |-> <<>>, emitted |-> 0,
     decoded |-> <<>>]

\* ChildProcess.kill: signals a subprocess that is still there
kill(procs0, i) ==
    IF procs0[i].status = "running"
    THEN [procs0 EXCEPT ![i].status = "killed"]
    ELSE procs0

\* the catch block never empties the buffer
overflows_never(buffer) == FALSE

\* buffer.length > 1000000
overflows(buffer) == length(buffer) > BufferCeiling

\* the handler with buffer = data in place of buffer += data
onStdoutData_overwrite(buffer0, agg, data) ==
    LET buffer == data
    IN IF JSONparses(buffer) /\ ~addPacketThrows(JSONparse(buffer))
       THEN [buffer |-> <<>>, aggregator |-> addPacket(agg, JSONparse(buffer)),
             emit |-> TRUE, packet |-> JSONparse(buffer),
             data |-> getVisualizationData(addPacket(agg, JSONparse(buffer)))]
       ELSE [buffer |-> IF overflows(buffer) THEN <<>> ELSE buffer,
             aggregator |-> IF JSONparses(buffer)
                            THEN tryAddPacket(agg, JSONparse(buffer)).agg
                            ELSE agg,
             emit |-> FALSE, packet |-> NoPacket,
             data |-> getVisualizationData(agg)]

\* the handler emitting the snapshot it took before the fold
onStdoutData_staleSnapshot(buffer0, agg, data) ==
    LET buffer == buffer0 \o data
    IN IF JSONparses(buffer) /\ ~addPacketThrows(JSONparse(buffer))
       THEN [buffer |-> <<>>, aggregator |-> addPacket(agg, JSONparse(buffer)),
             emit |-> TRUE, packet |-> JSONparse(buffer),
             data |-> getVisualizationData(agg)]
       ELSE [buffer |-> IF overflows(buffer) THEN <<>> ELSE buffer,
             aggregator |-> IF JSONparses(buffer)
                            THEN tryAddPacket(agg, JSONparse(buffer)).agg
                            ELSE agg,
             emit |-> FALSE, packet |-> NoPacket,
             data |-> getVisualizationData(agg)]

\* the body of tshark.stdout.on('data'): the closure's buffer and aggregator
\* afterwards, and whether io.emit('networkUpdate', data) ran
onStdoutData(buffer0, agg, data) ==
    LET buffer == buffer0 \o data
    IN IF JSONparses(buffer) /\ ~addPacketThrows(JSONparse(buffer))
       THEN [buffer |-> <<>>, aggregator |-> addPacket(agg, JSONparse(buffer)),
             emit |-> TRUE, packet |-> JSONparse(buffer),
             data |-> getVisualizationData(addPacket(agg, JSONparse(buffer)))]
       ELSE [buffer |-> IF overflows(buffer) THEN <<>> ELSE buffer,
             aggregator |-> IF JSONparses(buffer)
                            THEN tryAddPacket(agg, JSONparse(buffer)).agg
                            ELSE agg,
             emit |-> FALSE, packet |-> NoPacket,
             data |-> getVisualizationData(agg)]

SrvInit ==
    /\ sockets = [c \in CONNS |-> "new"]
    /\ capture = [c \in CONNS |-> 0]
    /\ procs = <<>>
    /\ generator = NewGenerator
    /\ timers = {}
    /\ lastEmit = None
    /\ testUsers = {}
    /\ genFolded = <<>>
    /\ clock = 1

\* no tshark output is modelled as a fixed stream outside SpecDec
DecIdle ==
    /\ stdout = <<>>
    /\ pos = 0
    /\ fed = <<>>

\* io.on('connection')
Connect(c) ==
    /\ sockets[c] = "new"
    /\ sockets' = [sockets EXCEPT ![c] = "connected"]
    /\ capture' = [capture EXCEPT ![c] = 0]
    /\ UNCHANGED <<procs, generator, timers, lastEmit, testUsers, genFolded, clock>>
    /\ UNCHANGED <<aggVars, decVars>>

\* socket.on('startCapture') with networkInterface === 'test'
StartCaptureTest(c) ==
    /\ sockets[c] = "connected"
    /\ generator' = start(generator, timers).gen
    /\ timers' = start(generator, timers).timers
    /\ testUsers' = testUsers \cup {c}
    /\ UNCHANGED <<sockets, capture, procs, lastEmit, genFolded, clock>>
    /\ UNCHANGED <<aggVars, decVars>>

\* socket.on('startCapture') with an interface name
StartCaptureInterface(c, networkInterface) ==
    /\ sockets[c] = "connected"
    /\ Len(procs) < MaxProcs
    /\ procs' = Append(procs, startCapture(c, networkInterface))
    /\ capture' = [capture EXCEPT ![c] = Len(procs) + 1]
    /\ UNCHANGED <<sockets, generator, timers, lastEmit, testUsers, genFolded, clock>>
    /\ UNCHANGED <<aggVars, decVars>>

\* socket.on('startCapture') when spawn throws: the catch block
StartCaptureThrows(c) ==
    /\ sockets[c] = "connected"
    /\ lastEmit' = ErrorMessage({c}, "Failed to start capture", {c}, SocketSource)
    /\ UNCHANGED <<sockets, capture, procs, generator, timers, testUsers, genFolded,
                   clock>>
    /\ UNCHANGED <<aggVars, decVars>>

\* socket.on('stopTestTraffic')
StopTestTraffic(c) ==
    /\ sockets[c] = "connected"
    /\ generator' = stop(generator, timers).gen
    /\ timers' = stop(generator, timers).timers
    /\ testUsers' = testUsers \ {c}
    /\ UNCHANGED <<sockets, capture, procs, lastEmit, genFolded, clock>>
    /\ UNCHANGED <<aggVars, decVars>>

\* socket.on('disconnect')
Disconnect(c) ==
    /\ sockets[c] = "connected"
    /\ sockets' = [sockets EXCEPT ![c] = "disconnected"]
    /\ procs' = IF capture[c] # 0 THEN kill(procs, capture[c]) ELSE procs
    /\ generator' = stop(generator, timers).gen
    /\ timers' = stop(generator, timers).timers
    /\ testUsers' = testUsers \ {c}
    /\ UNCHANGED <<capture, lastEmit, genFolded, clock>>
    /\ UNCHANGED <<aggVars, decVars>>

\* tshark.stdout.on('data') of subprocess i, given one chunk
StdoutHandler(i, chunk) ==
    /\ procs[i].status = "running"
    /\ LET r == onStdoutData(procs[i].buffer, procs[i].aggregator, chunk)
       IN IF r.emit
          THEN /\ procs' = [procs EXCEPT ![i].aggregator = r.aggregator,
                                         ![i].buffer = r.buffer,
                                         ![i].emitted = procs[i].emitted + 1,
                                         ![i].decoded = Append(procs[i].decoded,
                                                               r.packet)]
               /\ lastEmit' = NetworkUpdate(ioSockets, r.data, {procs[i].owner},
                                         procs[i].emitted = 0, r.packet,
                                         CaptureSource(i))
          ELSE /\ procs' = [procs EXCEPT ![i].aggregator = r.aggregator,
                                         ![i].buffer = r.buffer]
               /\ lastEmit' = lastEmit
    /\ UNCHANGED <<sockets, capture, generator, timers, testUsers, genFolded>>
    /\ UNCHANGED aggVars

\* tshark.stdout.on('data'), the chunk holding what tshark saw at this second
StdoutData(i, chunk) ==
    /\ clock < MaxEvents
    /\ clock' = clock + 1
    /\ StdoutHandler(i, chunk)
    /\ UNCHANGED decVars

\* tshark.stderr.on('data')
StderrData(i, permissionDenied) ==
    /\ procs[i].status = "running"
    /\ lastEmit' = IF permissionDenied
                   THEN ErrorMessage(ioSockets, "Permission denied", {procs[i].owner},
                                     CaptureSource(i))
                   ELSE lastEmit
    /\ UNCHANGED <<sockets, capture, procs, generator, timers, testUsers, genFolded,
                   clock>>
    /\ UNCHANGED <<aggVars, decVars>>

\* tshark.on('error'): the subprocess could not be spawned
SpawnError(i) ==
    /\ procs[i].status = "running"
    /\ procs[i].emitted = 0
    /\ procs[i].buffer = <<>>
    /\ procs' = [procs EXCEPT ![i].status = "failed"]
    /\ lastEmit' = ErrorMessage(ioSockets, "Failed to start packet capture",
                              {procs[i].owner}, CaptureSource(i))
    /\ UNCHANGED <<sockets, capture, generator, timers, testUsers, genFolded, clock>>
    /\ UNCHANGED <<aggVars, decVars>>

\* the setInterval callback of TestTrafficGenerator.start, run by a live timer
Tick(srcIpIndex, dstIpIndex, protocolIndex, bytes) ==
    /\ timers # {}
    /\ clock < MaxEvents
    /\ clock' = clock + 1
    /\ LET packet == generateRandomPacket(srcIpIndex, dstIpIndex, protocolIndex,
                                          bytes, clock)
           agg == addPacket(generator.aggregator, packet)
       IN /\ generator' = [generator EXCEPT !.aggregator = agg,
                                            !.emitted = generator.emitted + 1]
          /\ genFolded' = Append(genFolded, [packet |-> packet, users |-> testUsers])
          /\ lastEmit' = NetworkUpdate(ioSockets, getVisualizationData(agg), testUsers,
                                    generator.emitted = 0, packet, TestSource)
    /\ UNCHANGED <<sockets, capture, procs, timers, testUsers>>
    /\ UNCHANGED <<aggVars, decVars>>

Next ==
    \/ \E c \in CONNS : Connect(c)
    \/ \E c \in CONNS : StartCaptureTest(c)
    \/ \E c \in CONNS : StartCaptureInterface(c, InterfaceOf(c))
    \/ \E c \in CONNS : StartCaptureThrows(c)
    \/ \E c \in CONNS : StopTestTraffic(c)
    \/ \E c \in CONNS : Disconnect(c)
    \/ \E i \in 1..Len(procs) : \E chunk \in Chunks(procs[i].iface, clock) :
          StdoutData(i, chunk)
    \/ \E i \in 1..Len(procs), permissionDenied \in BOOLEAN :
          StderrData(i, permissionDenied)
    \/ \E i \in 1..Len(procs) : SpawnError(i)
    \/ \E srcIpIndex \in GEN_SRC_INDEXES, dstIpIndex \in 1..Len(GEN_IPS),
          protocolIndex \in 1..Len(GEN_PROTOCOLS), bytes \in GEN_BYTES :
          /\ dstIpIndex # srcIpIndex
          /\ Tick(srcIpIndex, dstIpIndex, protocolIndex, bytes)

Init == AggInit /\ SrvInit /\ DecIdle

Spec == Init /\ [][Next]_vars

AggNext == Fold

SpecAgg == Init /\ [][AggNext]_vars

-----------------------------------------------------------------------------
(* SpecDec: one capture subprocess, its stdout text delivered in any chunking *)

\* what tshark may write as one unit: two well-formed packets and three
\* complete JSON values that are not packets
DecPackets ==
    {[structured |-> TRUE, src |-> "10.0.0.1", dst |-> "10.0.0.2",
      len |-> <<"4", "0">>, tcp |-> TRUE, udp |-> FALSE, time |-> <<"1">>],
     [structured |-> TRUE, src |-> "10.0.0.2", dst |-> "10.0.0.3",
      len |-> <<"2", "8">>, tcp |-> FALSE, udp |-> TRUE, time |-> <<"2">>],
     NoPacket, NoIp, NoFrame}

\* text that is no JSON value, half the ceiling long and one more than that
Junk ==
    {<<[kind |-> "junk", n |-> BufferCeiling \div 2]>>,
     <<[kind |-> "junk", n |-> (BufferCeiling \div 2) + 1]>>}

Units == {Stringify(p) : p \in DecPackets} \cup Junk

RECURSIVE TextsOf(_)
TextsOf(k) ==
    IF k = 0 THEN {<<>>}
    ELSE TextsOf(k - 1) \cup {t \o u : t \in TextsOf(k - 1), u \in Units}

\* v1 has connected and asked for eth0; tshark will write stdout
DecInit ==
    /\ AggInit
    /\ sockets = [c \in CONNS |-> IF c = "v1" THEN "connected" ELSE "new"]
    /\ capture = [c \in CONNS |-> IF c = "v1" THEN 1 ELSE 0]
    /\ procs = <<startCapture("v1", "eth0")>>
    /\ generator = NewGenerator
    /\ timers = {}
    /\ lastEmit = None
    /\ testUsers = {}
    /\ genFolded = <<>>
    /\ clock = 1
    /\ stdout \in TextsOf(MaxUnits)
    /\ pos = 0
    /\ fed = <<>>

\* the pipe delivers the next n pieces as one chunk to the stdout handler
Feed(n) ==
    /\ pos + n <= Len(stdout)
    /\ StdoutHandler(1, SubSeq(stdout, pos + 1, pos + n))
    /\ pos' = pos + n
    /\ fed' = Append(fed, SubSeq(stdout, pos + 1, pos + n))
    /\ UNCHANGED <<stdout, clock>>

DecNext == \E n \in 1..Len(stdout) : Feed(n)

SpecDec == DecInit /\ [][DecNext]_vars

-----------------------------------------------------------------------------
(* SpecOne: the server with a single viewer, every generated packet possible *)

OneNext ==
    \/ Connect("v1")
    \/ StartCaptureTest("v1")
    \/ StartCaptureInterface("v1", InterfaceOf("v1"))
    \/ StopTestTraffic("v1")
    \/ Disconnect("v1")
    \/ \E i \in 1..Len(procs) : \E chunk \in Chunks(procs[i].iface, clock) :
          StdoutData(i, chunk)
    \/ \E srcIpIndex \in 1..Len(GEN_IPS), dstIpIndex \in 1..Len(GEN_IPS),
          protocolIndex \in 1..Len(GEN_PROTOCOLS), bytes \in GEN_BYTES :
          /\ dstIpIndex # srcIpIndex
          /\ Tick(srcIpIndex, dstIpIndex, protocolIndex, bytes)

SpecOne == Init /\ [][OneNext]_vars

-----------------------------------------------------------------------------
(* What the history says: addresses, ranks, counts and byte sums *)

\* the addresses in the order the folds met them: src1, dst1, src2, dst2, ...
AddrSeq(recs) ==
    [i \in 1..(2 * Len(recs)) |->
        IF i % 2 = 1 THEN recs[(i + 1) \div 2].src ELSE recs[i \div 2].dst]

Seen(recs) == {AddrSeq(recs)[i] : i \in 1..(2 * Len(recs))}

FirstPos(recs, a) ==
    CHOOSE i \in 1..(2 * Len(recs)) :
        /\ AddrSeq(recs)[i] = a
        /\ \A j \in 1..(i - 1) : AddrSeq(recs)[j] # a

\* 1-based rank of the first appearance of address a
Rank(recs, a) == Cardinality({AddrSeq(recs)[j] : j \in 1..FirstPos(recs, a)})

RECURSIVE SumBytes(_, _)
SumBytes(recs, idx) ==
    IF idx = {} THEN 0
    ELSE LET i == CHOOSE j \in idx : TRUE
         IN parseInt(recs[i].len) + SumBytes(recs, idx \ {i})

Touching(recs, a) == {i \in 1..Len(recs) : recs[i].src = a \/ recs[i].dst = a}

AsSource(recs, a) == {i \in 1..Len(recs) : recs[i].src = a}

AsDest(recs, a) == {i \in 1..Len(recs) : recs[i].dst = a}

Matching(recs, a, b, proto) ==
    {i \in 1..Len(recs) :
        recs[i].src = a /\ recs[i].dst = b /\ getProtocol(recs[i]) = proto}

HostsOf(agg) == {agg.hosts[i].value : i \in 1..Len(agg.hosts)}

HostIdOf(agg, a) == (CHOOSE h \in HostsOf(agg) : h.ip = a).id

-----------------------------------------------------------------------------
(* C1: host ids *)

C1_IdIsRank ==
    /\ \A a \in Seen(folded) :
          Cardinality({h \in HostsOf(aggregator) : h.ip = a}) = 1
    /\ \A h \in HostsOf(aggregator) :
          /\ h.ip \in Seen(folded)
          /\ h.id = toString(Rank(folded, h.ip))
    /\ \A i, j \in 1..Len(aggregator.hosts) :
          aggregator.hosts[i].value.id = aggregator.hosts[j].value.id => i = j

C1_IdKept ==
    \A h \in HostsOf(aggregator) :
        \E k \in HostsOf(aggregator') : k.ip = h.ip /\ k.id = h.id

\* C1: the id of an address is the decimal string of the 1-based rank of its
\* first appearance in the folded packets, no two hosts have the same id, and
\* no fold changes the id an address already has.
C1_HostIdStability == [](C1_IdIsRank) /\ [][C1_IdKept]_vars

\* three addresses have been met, the third in the second packet
C1_Witness ==
    /\ Len(folded) = 2
    /\ Len(aggregator.hosts) = 3
    /\ \E h \in HostsOf(aggregator) : h.id = <<"3">> /\ h.ip = folded[2].dst

-----------------------------------------------------------------------------
(* C2: host counters *)

\* C2 as stated: packets is the number of folded packets that have the host's
\* address as source or destination, bytesTransferred the sum of their lengths.
C2_CountsPerRecord ==
    \A h \in HostsOf(aggregator) :
        /\ h.packets = Cardinality(Touching(folded, h.ip))
        /\ h.bytesTransferred = SumBytes(folded, Touching(folded, h.ip))

\* C2 amended: packets is the number of folded packets with the host's address
\* as source plus the number with it as destination (a packet whose source is
\* its destination counts twice), bytesTransferred the sum of the byte lengths
\* counted the same way; a packet of length 0 counts as a packet.
C2_CountsPerEndpoint ==
    \A h \in HostsOf(aggregator) :
        /\ h.packets = Cardinality(AsSource(folded, h.ip))
                       + Cardinality(AsDest(folded, h.ip))
        /\ h.bytesTransferred = SumBytes(folded, AsSource(folded, h.ip))
                                + SumBytes(folded, AsDest(folded, h.ip))

\* a host met in a packet to itself and in a packet of length 0 and with bytes
C2_Witness ==
    /\ Len(folded) = 2
    /\ folded[1].src = folded[1].dst
    /\ folded[2].src = folded[1].src
    /\ folded[2].dst # folded[2].src
    /\ folded[1].len = <<"4", "0">>
    /\ folded[2].len = <<"0">>
    /\ \E h \in HostsOf(aggregator) :
          h.ip = folded[1].src /\ h.packets = 3 /\ h.bytesTransferred = 80

-----------------------------------------------------------------------------
(* C3: streams are directional and per protocol *)

\* the stream entry has the packet's (source, target, protocol)
IsStreamOf(agg, stream, packet) ==
    /\ stream.source = HostIdOf(agg, packet.src)
    /\ stream.target = HostIdOf(agg, packet.dst)
    /\ stream.protocol = getProtocol(packet)

\* C3: for every folded packet the stream list holds exactly one entry with
\* the packet's (source, target, protocol), whose packets and bytes are the
\* count and byte sum of the folded packets with exactly that triple, and it
\* holds no other entry; so A->B and B->A with one protocol are two entries.
C3_DirectionalStreams ==
    /\ \A i \in 1..Len(folded) :
          LET m == Matching(folded, folded[i].src, folded[i].dst, getProtocol(folded[i]))
              entries == {k \in 1..Len(aggregator.streams) :
                            IsStreamOf(aggregator, aggregator.streams[k].value, folded[i])}
          IN /\ Cardinality(entries) = 1
             /\ \A k \in entries :
                   /\ aggregator.streams[k].value.packets = Cardinality(m)
                   /\ aggregator.streams[k].value.bytes = SumBytes(folded, m)
    /\ \A k \in 1..Len(aggregator.streams) :
          \E i \in 1..Len(folded) :
              IsStreamOf(aggregator, aggregator.streams[k].value, folded[i])

\* A->B and B->A with one protocol have been folded and are two streams
C3_Witness ==
    /\ Len(folded) = 2
    /\ folded[1].src # folded[1].dst
    /\ folded[2].src = folded[1].dst
    /\ folded[2].dst = folded[1].src
    /\ getProtocol(folded[1]) = getProtocol(folded[2])
    /\ folded[1].len # folded[2].len
    /\ Len(aggregator.streams) = 2

-----------------------------------------------------------------------------
(* C4: snapshots are well-formed *)

WellFormed(snap) ==
    /\ \A i \in 1..Len(snap.streams) :
          /\ \E j \in 1..Len(snap.hosts) : snap.hosts[j].id = snap.streams[i].source
          /\ \E j \in 1..Len(snap.hosts) : snap.hosts[j].id = snap.streams[i].target
    /\ \A i, j \in 1..Len(snap.hosts) :
          snap.hosts[i].ip = snap.hosts[j].ip => i = j
    /\ \A i, j \in 1..Len(snap.streams) :
          (/\ snap.streams[i].source = snap.streams[j].source
           /\ snap.streams[i].target = snap.streams[j].target
           /\ snap.streams[i].protocol = snap.streams[j].protocol) => i = j

\* C4: in the snapshot a fold returns, every stream's source and target are
\* ids of hosts of that snapshot, no two hosts have the same address and no
\* two streams the same (source, target, protocol).
C4_SnapshotWellFormed == WellFormed(snapshot)

\* a returned snapshot with two streams over an address met twice
C4_Witness ==
    /\ Len(folded) = 2
    /\ Len(snapshot.streams) = 2
    /\ Len(snapshot.hosts) = 2
    /\ snapshot = getVisualizationData(aggregator)

-----------------------------------------------------------------------------
(* C5: session isolation of the aggregator state *)

Addresses(packets) == {p.src : p \in packets} \cup {p.dst : p \in packets}

\* the packets the generator folded while connection c was using it
OwnGenerated(c) ==
    {genFolded[i].packet : i \in {j \in 1..Len(genFolded) : c \in genFolded[j].users}}

\* C5: the aggregator a connection's synthetic source folds into holds only
\* hosts of packets generated for that connection, never hosts of packets
\* generated for another viewer's session.
C5_SessionIsolation ==
    \A c \in testUsers :
        \A h \in HostsOf(generator.aggregator) :
            h.ip \in Addresses(OwnGenerated(c))

-----------------------------------------------------------------------------
(* C6: delivery to the session's subscriber only *)

\* C6: a networkUpdate or error caused by one connection's source is delivered
\* to that connection only, never to another viewer.
C6_DeliveredToOwnerOnly ==
    lastEmit.event \in {"networkUpdate", "error"} => lastEmit.to \subseteq lastEmit.owners

-----------------------------------------------------------------------------
(* C7: at most one live capture subprocess per connection *)

LiveCaptures(c) ==
    {i \in 1..Len(procs) : procs[i].owner = c /\ procs[i].status = "running"}

\* C7: no connection has two capture subprocesses running at once.
C7_OneCapturePerConnection ==
    \A c \in CONNS : Cardinality(LiveCaptures(c)) <= 1

-----------------------------------------------------------------------------
(* C8: one active traffic source per session *)

\* C8: no connection is fed by a running capture subprocess and by the running
\* synthetic generator it asked for at the same time.
C8_OneSourcePerSession ==
    \A c \in CONNS :
        ~(/\ LiveCaptures(c) # {}
          /\ c \in testUsers
          /\ generator.running)

-----------------------------------------------------------------------------
(* C9: disconnect tears the whole session down *)

\* C9: once a connection's disconnect has been handled, no capture subprocess
\* it started is still running and the generator's timer is not running for it.
C9_DisconnectTearsDown ==
    \A c \in CONNS :
        sockets[c] = "disconnected" =>
            /\ LiveCaptures(c) = {}
            /\ ~(c \in testUsers /\ generator.interval # 0)

-----------------------------------------------------------------------------
(* C10: each session starts with an empty graph *)

\* C10: the first snapshot a source sends after it was started holds only the
\* hosts and the stream of the one packet folded since that start.
C10_StartsEmpty ==
    (lastEmit.event = "networkUpdate" /\ lastEmit.first) =>
        lastEmit.data = getVisualizationData(addPacket(NewAggregator, lastEmit.packet))

-----------------------------------------------------------------------------
(* C11 to C13, C17: the stdout decoder *)

\* the packets whose text the pieces hold, in order
PacketsIn(text) ==
    LET bodies == SelectSeq(text, LAMBDA piece : piece.kind = "body")
    IN [k \in 1..Len(bodies) |-> bodies[k].packet]

\* the text is well-formed packets only
AllValid(text) ==
    \A k \in 1..Len(text) :
        /\ text[k].kind # "junk"
        /\ text[k].kind = "body" => text[k].packet.structured

\* every chunk delivered so far was exactly one complete JSON value
Aligned == \A k \in 1..Len(fed) : JSONparses(fed[k])

\* C11: when tshark writes one well-formed packet, then however the pipe cuts
\* its text into chunks, nothing is folded or sent before the last chunk, and
\* after the last chunk exactly that packet has been folded, the buffer is empty
\* and the aggregator and the snapshot sent are those of the text arriving as a
\* single chunk.
C11_ChunkingIrrelevant ==
    \A p \in DecPackets :
        (p.structured /\ stdout = Stringify(p)) =>
            IF pos < Len(stdout)
            THEN /\ procs[1].decoded = <<>>
                 /\ lastEmit = None
            ELSE LET whole == onStdoutData(<<>>, NewAggregator, stdout)
                 IN /\ procs[1].decoded = <<p>>
                    /\ procs[1].emitted = 1
                    /\ procs[1].buffer = <<>>
                    /\ procs[1].aggregator = whole.aggregator
                    /\ lastEmit.event = "networkUpdate"
                    /\ lastEmit.packet = p
                    /\ lastEmit.data = whole.data

\* one packet has arrived in three chunks
C11_Witness ==
    /\ \E p \in DecPackets : p.structured /\ stdout = Stringify(p)
    /\ pos = Len(stdout)
    /\ Len(fed) = 3
    /\ procs[1].emitted = 1

\* C12: when tshark has written k well-formed packets and the pipe has delivered
\* all of their text, in whatever chunking, the handler has folded exactly those
\* k packets, in order.
C12_OnePerUnit ==
    (AllValid(stdout) /\ pos = Len(stdout)) => procs[1].decoded = PacketsIn(stdout)

\* C13: the buffer the handler keeps between two chunks is never longer than the
\* ceiling, and a chunk that takes the buffer over the ceiling without a packet
\* being sent empties the buffer and sends nothing.
C13_Retained == length(procs[1].buffer) <= BufferCeiling

C13_Reset ==
    (/\ fed' # fed
     /\ procs'[1].emitted = procs[1].emitted
     /\ length(procs[1].buffer \o fed'[Len(fed')]) > BufferCeiling) =>
        /\ procs'[1].buffer = <<>>
        /\ procs'[1].decoded = procs[1].decoded
        /\ lastEmit' = lastEmit

C13_BufferCeiling == [](C13_Retained) /\ [][C13_Reset]_vars

\* more text than the ceiling has arrived, nothing was sent, the buffer is empty
C13_Witness ==
    /\ pos > 0
    /\ length(SubSeq(stdout, 1, pos)) > BufferCeiling
    /\ procs[1].emitted = 0
    /\ procs[1].buffer = <<>>

\* C17: when every chunk was one complete JSON value, well-formed packet or not,
\* and all the text has been delivered, the handler has folded every well-formed
\* packet of the text, in order.
C17_MalformedSkipped ==
    (Aligned /\ pos = Len(stdout)) =>
        procs[1].decoded = SelectSeq(PacketsIn(stdout), LAMBDA p : p.structured)

-----------------------------------------------------------------------------
(* C14: one fold and one networkUpdate per record, in order *)

\* the aggregator that has folded the packets recs, first to last
RECURSIVE FoldAll(_)
FoldAll(recs) ==
    IF recs = <<>> THEN NewAggregator
    ELSE addPacket(FoldAll(SubSeq(recs, 1, Len(recs) - 1)), recs[Len(recs)])

GeneratedPackets == [k \in 1..Len(genFolded) |-> genFolded[k].packet]

\* the message just sent is the networkUpdate of source for the last of recs
EmitsFor(source, before, recs) ==
    /\ Len(recs) = Len(before) + 1
    /\ SubSeq(recs, 1, Len(before)) = before
    /\ lastEmit'.event = "networkUpdate"
    /\ lastEmit'.source = source
    /\ lastEmit'.packet = recs[Len(recs)]
    /\ lastEmit'.data = getVisualizationData(FoldAll(recs))

C14_Folded ==
    /\ generator.aggregator = FoldAll(GeneratedPackets)
    /\ \A i \in 1..Len(procs) : procs[i].aggregator = FoldAll(procs[i].decoded)

C14_Emits ==
    /\ genFolded' # genFolded =>
          EmitsFor(TestSource, GeneratedPackets, GeneratedPackets')
    /\ \A i \in 1..Len(procs) :
          procs'[i].decoded # procs[i].decoded =>
              EmitsFor(CaptureSource(i), procs[i].decoded, procs'[i].decoded)
    /\ (lastEmit' # lastEmit /\ lastEmit'.event = "networkUpdate") =>
          \/ lastEmit'.source = TestSource /\ genFolded' # genFolded
          \/ \E i \in 1..Len(procs) :
                /\ lastEmit'.source = CaptureSource(i)
                /\ procs'[i].decoded # procs[i].decoded

\* C14: each source's aggregator is always the fold of exactly the records that
\* source has produced so far, in order; a step in which a source produces its
\* i-th record sends one networkUpdate whose snapshot is that source's aggregator
\* after its first i records, and no networkUpdate is sent in any other step.
C14_FoldThenEmit == [](C14_Folded) /\ [][C14_Emits]_vars

\* a source has just sent its second snapshot
C14_Witness ==
    /\ lastEmit.event = "networkUpdate"
    /\ \/ lastEmit.source = TestSource /\ Len(genFolded) = 2
       \/ \E i \in 1..Len(procs) :
             lastEmit.source = CaptureSource(i) /\ Len(procs[i].decoded) = 2

-----------------------------------------------------------------------------
(* C15: start and stop of the synthetic generator are idempotent *)

C15_OneTimer ==
    /\ Cardinality(timers) <= 1
    /\ generator.running <=> timers # {}
    /\ generator.running => timers = {generator.interval}
    /\ ~generator.running => generator.interval = 0

C15_Idempotent ==
    /\ (generator.running /\ generator'.running) => timers' = timers
    /\ (~generator.running /\ ~generator'.running) =>
          /\ timers' = timers
          /\ generator' = generator
          /\ genFolded' = genFolded

\* C15: there is never more than one live timer, a timer is live exactly when
\* running is true, a start while running leaves the timer as it is, a stop while
\* stopped changes nothing, and no packet is generated while stopped.
C15_StartStopIdempotent == [](C15_OneTimer) /\ [][C15_Idempotent]_vars

\* the generator has run, has generated a packet and has been stopped
C15_Witness ==
    /\ ~generator.running
    /\ timers = {}
    /\ genFolded # <<>>

-----------------------------------------------------------------------------
(* C16: stopTestTraffic and disconnect stop the generator only for the sender *)

\* C16: while some connection that asked for synthetic traffic has neither
\* stopped it nor disconnected, the generator is running.
C16_StopScoped == testUsers # {} => generator.running

-----------------------------------------------------------------------------
(* C18: a capture failure is announced once *)

\* C18: the server never sends the same error about the same capture subprocess
\* twice in a row.
C18_SurfacedOnce ==
    ~(/\ lastEmit.event = "error"
      /\ lastEmit.source.kind = "capture"
      /\ lastEmit.repeat)

-----------------------------------------------------------------------------
(* C20: the aggregator only grows *)

\* every entry of map m is in map n under its key, with counters at least as large
Grows(m, n, bytesField) ==
    \A k \in 1..Len(m) :
        /\ MapHas(n, m[k].key)
        /\ MapGet(n, m[k].key).packets >= m[k].value.packets
        /\ MapGet(n, m[k].key)[bytesField] >= m[k].value[bytesField]

C20_Grows ==
    /\ Grows(aggregator.hosts, aggregator'.hosts, "bytesTransferred")
    /\ Grows(aggregator.streams, aggregator'.streams, "bytes")
    /\ Len(aggregator'.hosts) >= Len(aggregator.hosts)
    /\ Len(aggregator'.streams) >= Len(aggregator.streams)

\* C20: a fold removes no host and no stream, and lowers no packet counter and
\* no byte counter of a host or stream that was there before it.
C20_Monotonic == [][C20_Grows]_vars

\* a stream that was there has been folded into again
C20_Witness ==
    /\ Len(folded) = 2
    /\ \E k \in 1..Len(aggregator.streams) : aggregator.streams[k].value.packets = 2

-----------------------------------------------------------------------------
(* C21: the protocol of a stream comes from the layer markers *)

\* the family the layer markers of a packet stand for
Family(packet) ==
    IF packet.tcp THEN "TCP"
    ELSE IF packet.udp THEN "UDP"
    ELSE "OTHER"

\* the family of a protocol name the generator draws
GenFamily(protocol) ==
    IF protocol \in {"TCP", "HTTP", "HTTPS"} THEN "TCP" ELSE "UDP"

\* C21: every stream's protocol is TCP, UDP or OTHER; every folded packet has a
\* stream from its source to its destination whose protocol is TCP when the
\* packet has a tcp layer, else UDP when it has a udp layer, else OTHER; every
\* stream is the stream of some folded packet; and a generated TCP, HTTP or
\* HTTPS packet is classified TCP, a generated UDP or DNS packet UDP.
C21_ProtocolFromMarkers ==
    /\ \A k \in 1..Len(aggregator.streams) :
          /\ aggregator.streams[k].value.protocol \in {"TCP", "UDP", "OTHER"}
          /\ \E i \in 1..Len(folded) :
                /\ aggregator.streams[k].value.source = HostIdOf(aggregator, folded[i].src)
                /\ aggregator.streams[k].value.target = HostIdOf(aggregator, folded[i].dst)
                /\ aggregator.streams[k].value.protocol = Family(folded[i])
    /\ \A i \in 1..Len(folded) :
          \E k \in 1..Len(aggregator.streams) :
              /\ aggregator.streams[k].value.source = HostIdOf(aggregator, folded[i].src)
              /\ aggregator.streams[k].value.target = HostIdOf(aggregator, folded[i].dst)
              /\ aggregator.streams[k].value.protocol = Family(folded[i])
    /\ snapshot.streams = MapValues(aggregator.streams)
    /\ \A srcIpIndex \in 1..Len(GEN_IPS), dstIpIndex \in 1..Len(GEN_IPS),
          protocolIndex \in 1..Len(GEN_PROTOCOLS), bytes \in GEN_BYTES :
          getProtocol(generateRandomPacket(srcIpIndex, dstIpIndex, protocolIndex,
                                           bytes, Len(folded) + 1))
              = GenFamily(GEN_PROTOCOLS[protocolIndex])

\* a packet with both layers and a packet with neither have been folded
C21_Witness ==
    /\ Len(folded) = 2
    /\ folded[1].tcp /\ folded[1].udp
    /\ ~folded[2].tcp /\ ~folded[2].udp
    /\ folded[1].src = folded[2].src
    /\ folded[1].dst = folded[2].dst
    /\ Len(aggregator.streams) = 2

-----------------------------------------------------------------------------
(* C22: conservation of packets and bytes *)

\* the sum of one numeric field over a list of hosts or streams
RECURSIVE SumField(_, _)
SumField(list, field) ==
    IF list = <<>> THEN 0
    ELSE list[1][field] + SumField(Tail(list), field)

\* C22: in the snapshot after n folds of packets whose lengths add up to B, the
\* streams' packets add up to n and their bytes to B, and the hosts' packets add
\* up to 2n and their bytesTransferred to 2B.
C22_Conservation ==
    LET n == Len(folded)
        B == SumBytes(folded, 1..Len(folded))
    IN /\ SumField(snapshot.streams, "packets") = n
       /\ SumField(snapshot.streams, "bytes") = B
       /\ SumField(snapshot.hosts, "packets") = 2 * n
       /\ SumField(snapshot.hosts, "bytesTransferred") = 2 * B

\* a packet from a host to itself was folded after a packet between two others
C22_Witness ==
    /\ Len(folded) = 2
    /\ folded[1].src # folded[1].dst
    /\ folded[2].src = folded[2].dst
    /\ folded[2].src \notin {folded[1].src, folded[1].dst}
    /\ folded[2].len = <<"4", "0">>
    /\ \E k \in 1..Len(snapshot.hosts) :
          /\ snapshot.hosts[k].ip = folded[2].src
          /\ snapshot.hosts[k].packets = 2
          /\ snapshot.hosts[k].bytesTransferred = 80

-----------------------------------------------------------------------------
(* C23: a fold that throws changes nothing *)

C23_Unchanged ==
    (/\ fed' # fed
     /\ JSONparses(procs[1].buffer \o fed'[Len(fed')])
     /\ addPacketThrows(JSONparse(procs[1].buffer \o fed'[Len(fed')]))) =>
        /\ procs'[1].aggregator = procs[1].aggregator
        /\ procs'[1].decoded = procs[1].decoded
        /\ procs'[1].emitted = procs[1].emitted
        /\ lastEmit' = lastEmit

\* C23: when a chunk completes a JSON value on which addPacket throws, the
\* aggregator is afterwards as it was before the chunk (no host, stream or
\* counter differs) and no networkUpdate is sent.
C23_FailedFoldNoEffect == [][C23_Unchanged]_vars

\* a packet was folded and then a value with ip but without frame was parsed:
\* the aggregator still holds the two hosts of the packet and nothing else
C23_Witness ==
    /\ Len(fed) = 2
    /\ JSONparses(fed[1]) /\ JSONparse(fed[1]).structured
    /\ fed[2] = Stringify(NoFrame)
    /\ procs[1].decoded = <<JSONparse(fed[1])>>
    /\ procs[1].aggregator = addPacket(NewAggregator, JSONparse(fed[1]))
    /\ lastEmit.packet = JSONparse(fed[1])

====
